---- MODULE Spec2Model ----
(***************************************************************************)
(* Verification model of LLGL: the Direct3D12 staging-buffer pool, the     *)
(* OpenGL swap chain and deferred command encoding, the shader-program     *)
(* interface and the testbed driver.                                       *)
(***************************************************************************)
EXTENDS Integers, Sequences, FiniteSets, TLC

VARIABLES
    \* ---- D3D12StagingBufferPool ----
    chunkSize_,             \* UINT64 chunkSize_
    chunks_,                \* std::vector<D3D12StagingBuffer> chunks_ : [size, offset]
    chunkIdx_,              \* std::size_t chunkIdx_ (0-based)
    globalUploadBuffer_,    \* D3D12StagingBuffer : [size, offset]
    globalReadbackBuffer_,  \* D3D12StagingBuffer : [size, offset]
    uploadMapped,           \* the native upload buffer is mapped for the CPU
    readbackMapped,         \* the native readback buffer is mapped for the CPU
    currentState,           \* D3D12Resource::currentState of the transferred buffer
    cmdList,                \* destinations of the copies recorded in the command context, not yet submitted
    pc,                     \* position inside ReadSubresourceRegion / MapFeedbackBuffer
    call,                   \* the pool call in progress or last returned
    \* ---- a client that repeats a round of WriteStaged calls after Reset ----
    log,                    \* the WriteStaged calls (size, result) of the recorded round
    mode,                   \* "record": the round is being recorded; "replay": it is repeated
    replayed,               \* number of calls of the recorded round repeated since the last Reset
    chunksAtReset,          \* chunks_.size() at the last Reset
    \* ---- GLSwapChain and the deferred OpenGL command buffer ----
    framebufferHeight_,     \* GLint framebufferHeight_
    numPresented,           \* number of SwapBuffers calls
    swapQuery,              \* the last query of the swap chain and its result
    glBuffer,               \* the encoded command stream, a sequence of cells
    glCommands,             \* the commands that were encoded, in order
    glExecuted,             \* the commands found by the last replay of the stream, and the cells it consumed
    \* ---- ShaderProgram ----
    attached,               \* the shaders attached to the shader program
    linked,                 \* the link status of the shader program is valid
    shaderCall,             \* the last call on the shader program and its outcome
    \* ---- Testbed main ----
    argv,                   \* the program arguments, argv[0] first; a string is a sequence of characters
    availableModules,       \* the result of RenderSystem::FindModules
    tbPc,                   \* position inside GuardedMain
    enabledModules,         \* std::vector<ModuleAndVersion> enabledModules
    moduleIdx,              \* number of entries of enabledModules whose testbed has run
    modulesWithFailedTests, \* unsigned modulesWithFailedTests
    testRuns,               \* the test runs so far: module name, version and reported failures
    printed,                \* the help document and summary lines printed
    exitCode,               \* the value main returns
    threw,                  \* an exception left GuardedMain
    \* ---- GetRendererModule on its own ----
    moduleArg,              \* the name passed to GetRendererModule
    moduleResult,           \* the ModuleAndVersion it returned
    \* ---- GetSelectedRendererModule ----
    selArgv,                \* the program arguments, argv[0] first
    selModules,             \* the result of RenderSystem::FindModules
    selPc,                  \* position inside GetSelectedRendererModule
    rendererModule,         \* std::string rendererModule
    selPrompts,             \* how often the list of modules was printed
    \* ---- Canvas ----
    eventListeners_,        \* std::vector<std::shared_ptr<EventListener>> eventListeners_
    canvasPc,               \* position inside Canvas::ProcessEvents
    notifyIdx,              \* position of the loop of FOREACH_LISTENER_CALL
    listenersAtCall,        \* eventListeners_ when ProcessEvents was called
    canvasEvents,           \* the OnProcessEvents calls made by the last ProcessEvents
    canvasCall,             \* the last AddEventListener or RemoveEventListener call
    \* ---- Tutorial::ReloadShaderProgram ----
    known,                  \* the shader program is a key of shaderPrograms_
    shaderDescs,            \* recall.shaderDescs, the shader type of each descriptor
    recallShaders,          \* recall.shaders
    recallAtCall,           \* recall.shaders when ReloadShaderProgram was called
    newShaders,             \* the local std::vector<LLGL::Shader*> shaders
    releasedShaders,        \* the shaders passed to renderer->Release
    reloadPc,               \* position inside ReloadShaderProgram
    reloadIdx,              \* position of the current loop
    reloadFailed,           \* an exception was raised inside the try block
    reloadResult,           \* how the call ended: "true", "false" or "threw"
    reloads                 \* the number of ReloadShaderProgram calls so far

poolVars == << chunkSize_, chunks_, chunkIdx_, globalUploadBuffer_, globalReadbackBuffer_,
               uploadMapped, readbackMapped, currentState, cmdList, pc, call >>
logVars == << log, mode, replayed, chunksAtReset >>

glVars == << framebufferHeight_, numPresented, swapQuery, glBuffer, glCommands, glExecuted >>

shaderVars == << attached, linked, shaderCall >>

testbedVars == << argv, availableModules, tbPc, enabledModules, moduleIdx, modulesWithFailedTests,
                 testRuns, printed, exitCode, threw >>

moduleVars == << moduleArg, moduleResult >>

selectVars == << selArgv, selModules, selPc, rendererModule, selPrompts >>

canvasVars == << eventListeners_, canvasPc, notifyIdx, listenersAtCall, canvasEvents, canvasCall >>

reloadVars == << known, shaderDescs, recallShaders, recallAtCall, newShaders, releasedShaders,
                reloadPc, reloadIdx, reloadFailed, reloadResult, reloads >>

extraVars == << moduleVars, selectVars, canvasVars, reloadVars >>

vars == << poolVars, logVars, glVars, shaderVars, testbedVars, extraVars >>

----------------------------------------------------------------------------
(* Bounds of the model *)

MaxChunks == 3
MaxTransferChunks == 2
MaxLog == 2
MaxCommands == 2
MaxFrames == 1
MaxArgs == 2
MaxSuffix == 4
MaxPrompts == 2
MaxReloads == 2

Max(a, b) == IF a >= b THEN a ELSE b

----------------------------------------------------------------------------
(* Direct3D12 staging-buffer pool *)

S_OK == "S_OK"
E_FAIL == "E_FAIL"
HResults == { S_OK, E_FAIL }

D3D12_RESOURCE_STATE_COMMON == "COMMON"
D3D12_RESOURCE_STATE_COPY_DEST == "COPY_DEST"
D3D12_RESOURCE_STATE_COPY_SOURCE == "COPY_SOURCE"
ResourceStates == { D3D12_RESOURCE_STATE_COMMON, D3D12_RESOURCE_STATE_COPY_DEST,
                    D3D12_RESOURCE_STATE_COPY_SOURCE }

\* constexpr UINT64 minAlignment = 4096ull
minAlignment == 4096

\* inputs: chunk sizes of the pool, data sizes of staged writes, alignments, and request
\* sizes for the global buffers (below, at and above a multiple of minAlignment)
ChunkSizes == { 1, 2 }
DataSizes == { 1, 2, 3 }
Alignments == { 1, 256 }
GlobalSizes == { 1, minAlignment, minAlignment + 1 }

\* a pool call: the operation, its data size, its result, the buffer's tracked state at
\* entry and during the copy, what the CPU found in the readback buffer when it mapped it
\* and the number of bytes written to the caller's output memory
NoCall == [ op |-> "none", size |-> 0, hr |-> S_OK, oldState |-> "-", copyState |-> "-",
            cpuSaw |-> "nothing", outData |-> 0, unmapped |-> FALSE ]

\* D3D12StagingBuffer::Capacity
Capacity(buf, dataSize) == buf.offset + dataSize <= buf.size

\* D3D12StagingBuffer::Reset
StagingBufferReset(buf) == [ buf EXCEPT !.offset = 0 ]

\* GetAlignedSize of Core/CoreUtils.h
GetAlignedSize(size, alignment) ==
    IF alignment > 1 THEN ((size + alignment - 1) \div alignment) * alignment ELSE size

\* D3D12StagingBuffer::Create
StagingBufferCreate(size, alignment) == [ size |-> GetAlignedSize(size, alignment), offset |-> 0 ]

\* D3D12StagingBuffer::WriteAndIncrementOffset
WriteAndIncrementOffset(buf, dataSize, hr) ==
    IF hr = S_OK THEN [ buf EXCEPT !.offset = @ + dataSize ] ELSE buf

\* FindChunk with "if" for "while": only the current chunk is tried before allocating
FindChunk_CurrentOnly(chunks, idx, dataSize) ==
    IF idx < Len(chunks) /\ ~Capacity(chunks[idx + 1], dataSize) THEN Len(chunks) ELSE idx

\* the while loop of WriteStaged: the first chunk from idx on that has capacity, or chunks.size()
RECURSIVE FindChunk(_, _, _)
FindChunk(chunks, idx, dataSize) ==
    IF idx < Len(chunks) /\ ~Capacity(chunks[idx + 1], dataSize)
    THEN FindChunk(chunks, idx + 1, dataSize)
    ELSE idx

\* D3D12StagingBufferPool::AllocChunk
\* AllocChunk without std::max: every chunk gets the configured size
AllocChunk_ConfiguredSize(chunks, minChunkSize) ==
    Append(chunks, [ size |-> chunkSize_, offset |-> 0 ])

AllocChunk(chunks, minChunkSize) ==
    Append(chunks, [ size |-> Max(chunkSize_, minChunkSize), offset |-> 0 ])

\* chunk selection of WriteStaged: the chunks and the chunk index after it
SelectChunk(chunks, idx, dataSize) ==
    LET found == FindChunk(chunks, idx, dataSize) IN
    IF found = Len(chunks)
    THEN [ chunks |-> AllocChunk(chunks, dataSize), idx |-> Len(chunks) ]
    ELSE [ chunks |-> chunks, idx |-> found ]

\* D3D12CommandContext::TransitionResource, on the tracked state
TransitionResource(resourceState, newState) == newState

\* ID3D12GraphicsCommandList::CopyBufferRegion, recorded in the command list
CopyBufferRegion(list, dst) == list \cup { dst }

\* a copy into the readback buffer is recorded and not yet executed
PendingReadbackCopy == "readback" \in cmdList

\* ResizeBuffer that creates a buffer of the requested size on every call
ResizeBuffer_Always(stagingBuffer, size, alignment) ==
    StagingBufferCreate(GetAlignedSize(size, alignment), minAlignment)

\* D3D12StagingBufferPool::ResizeBuffer
ResizeBuffer(stagingBuffer, size, alignment) ==
    LET alignedSize == GetAlignedSize(size, alignment) IN
    IF ~Capacity(stagingBuffer, alignedSize)
    THEN StagingBufferCreate(alignedSize, minAlignment)
    ELSE stagingBuffer

\* D3D12StagingBufferPool::GetUploadBufferAndGrow
GetUploadBufferAndGrow(size, alignment) == ResizeBuffer(globalUploadBuffer_, size, alignment)

\* D3D12StagingBufferPool::GetReadbackBufferAndGrow
GetReadbackBufferAndGrow(size, alignment) == ResizeBuffer(globalReadbackBuffer_, size, alignment)

\* D3D12CommandQueue::FinishAndSubmitCommandContext(commandContext, waitIdle): with
\* waitIdle the recorded commands have been executed when it returns
FinishAndSubmitCommandContext(list, waitIdle) == IF waitIdle THEN { } ELSE list

Idle == pc = "idle"

\* D3D12StagingBufferPool::InitializeDevice
InitializeDevice(chunkSize) ==
    /\ Idle
    /\ chunkSize_' = chunkSize
    /\ call' = [ NoCall EXCEPT !.op = "InitializeDevice" ]
    /\ UNCHANGED << chunks_, chunkIdx_, globalUploadBuffer_, globalReadbackBuffer_, uploadMapped,
                    readbackMapped, currentState, cmdList, pc >>

\* Reset without "chunkIdx_ = 0"
Reset_KeepChunkIdx ==
    /\ Idle
    /\ chunks_' = [ i \in 1..Len(chunks_) |-> StagingBufferReset(chunks_[i]) ]
    /\ call' = [ NoCall EXCEPT !.op = "Reset" ]
    /\ UNCHANGED << chunkSize_, chunkIdx_, globalUploadBuffer_, globalReadbackBuffer_, uploadMapped,
                    readbackMapped, currentState, cmdList, pc >>

\* D3D12StagingBufferPool::Reset
Reset ==
    /\ Idle
    /\ chunks_' = [ i \in 1..Len(chunks_) |-> StagingBufferReset(chunks_[i]) ]
    /\ chunkIdx_' = 0
    /\ call' = [ NoCall EXCEPT !.op = "Reset" ]
    /\ UNCHANGED << chunkSize_, globalUploadBuffer_, globalReadbackBuffer_, uploadMapped,
                    readbackMapped, currentState, cmdList, pc >>

\* D3D12StagingBufferPool::WriteStaged; hr is the result of writing to the chunk
WriteStaged(dataSize, hr) ==
    LET sel == SelectChunk(chunks_, chunkIdx_, dataSize)
        oldResourceState == currentState
        copyState == TransitionResource(currentState, D3D12_RESOURCE_STATE_COPY_DEST)
    IN
    /\ Idle
    /\ Len(sel.chunks) <= MaxChunks
    /\ chunks_' = [ sel.chunks EXCEPT ![sel.idx + 1] = WriteAndIncrementOffset(@, dataSize, hr) ]
    /\ chunkIdx_' = sel.idx
    /\ cmdList' = IF hr = S_OK THEN CopyBufferRegion(cmdList, "buffer") ELSE cmdList
    /\ currentState' = TransitionResource(copyState, oldResourceState)
    /\ call' = [ NoCall EXCEPT !.op = "WriteStaged", !.size = dataSize, !.hr = hr,
                 !.oldState = oldResourceState, !.copyState = copyState ]
    /\ UNCHANGED << chunkSize_, globalUploadBuffer_, globalReadbackBuffer_, uploadMapped,
                    readbackMapped, pc >>

\* WriteImmediate without the transition back to the old state
WriteImmediate_NoRestore(dataSize, alignment, hr) ==
    LET oldResourceState == currentState
        copyState == TransitionResource(currentState, D3D12_RESOURCE_STATE_COPY_DEST)
    IN
    /\ Idle
    /\ globalUploadBuffer_' = GetUploadBufferAndGrow(dataSize, alignment)
    /\ cmdList' = IF hr = S_OK THEN CopyBufferRegion(cmdList, "buffer") ELSE cmdList
    /\ currentState' = copyState
    /\ call' = [ NoCall EXCEPT !.op = "WriteImmediate", !.size = dataSize, !.hr = hr,
                 !.oldState = oldResourceState, !.copyState = copyState ]
    /\ UNCHANGED << chunkSize_, chunks_, chunkIdx_, globalReadbackBuffer_, uploadMapped,
                    readbackMapped, pc >>

\* D3D12StagingBufferPool::WriteImmediate; hr is the result of writing to the upload buffer
WriteImmediate(dataSize, alignment, hr) ==
    LET oldResourceState == currentState
        copyState == TransitionResource(currentState, D3D12_RESOURCE_STATE_COPY_DEST)
    IN
    /\ Idle
    /\ globalUploadBuffer_' = GetUploadBufferAndGrow(dataSize, alignment)
    /\ cmdList' = IF hr = S_OK THEN CopyBufferRegion(cmdList, "buffer") ELSE cmdList
    /\ currentState' = TransitionResource(copyState, oldResourceState)
    /\ call' = [ NoCall EXCEPT !.op = "WriteImmediate", !.size = dataSize, !.hr = hr,
                 !.oldState = oldResourceState, !.copyState = copyState ]
    /\ UNCHANGED << chunkSize_, chunks_, chunkIdx_, globalReadbackBuffer_, uploadMapped,
                    readbackMapped, pc >>

\* ReadSubresourceRegion, lines 93-101: grow the readback buffer, record the copy between
\* the two transitions of the source buffer
ReadSubresourceRegion_Record(dataSize, alignment) ==
    LET oldResourceState == currentState
        copyState == TransitionResource(currentState, D3D12_RESOURCE_STATE_COPY_SOURCE)
    IN
    /\ Idle
    /\ globalReadbackBuffer_' = GetReadbackBufferAndGrow(dataSize, alignment)
    /\ cmdList' = CopyBufferRegion(cmdList, "readback")
    /\ currentState' = TransitionResource(copyState, oldResourceState)
    /\ call' = [ NoCall EXCEPT !.op = "ReadSubresourceRegion", !.size = dataSize,
                 !.oldState = oldResourceState, !.copyState = copyState ]
    /\ pc' = "read_recorded"
    /\ UNCHANGED << chunkSize_, chunks_, chunkIdx_, globalUploadBuffer_, uploadMapped, readbackMapped >>

\* ReadSubresourceRegion submitting without waiting for completion
ReadSubresourceRegion_SubmitNoWait ==
    /\ pc = "read_recorded"
    /\ cmdList' = FinishAndSubmitCommandContext(cmdList, FALSE)
    /\ pc' = "read_submitted"
    /\ UNCHANGED << chunkSize_, chunks_, chunkIdx_, globalUploadBuffer_, globalReadbackBuffer_,
                    uploadMapped, readbackMapped, currentState, call >>

\* ReadSubresourceRegion, line 102
ReadSubresourceRegion_Submit ==
    /\ pc = "read_recorded"
    /\ cmdList' = FinishAndSubmitCommandContext(cmdList, TRUE)
    /\ pc' = "read_submitted"
    /\ UNCHANGED << chunkSize_, chunks_, chunkIdx_, globalUploadBuffer_, globalReadbackBuffer_,
                    uploadMapped, readbackMapped, currentState, call >>

\* what the CPU finds in the readback buffer when it maps it
ReadbackContent == IF PendingReadbackCopy THEN "incomplete" ELSE "complete"

\* ReadSubresourceRegion without the return on a failed Map
ReadSubresourceRegion_Map_NoReturn(hr) ==
    /\ pc = "read_submitted"
    /\ call' = [ call EXCEPT !.hr = hr, !.cpuSaw = ReadbackContent, !.outData = call.size,
                             !.unmapped = TRUE ]
    /\ pc' = "idle"
    /\ UNCHANGED << chunkSize_, chunks_, chunkIdx_, globalUploadBuffer_, globalReadbackBuffer_,
                    uploadMapped, readbackMapped, currentState, cmdList >>

\* ReadSubresourceRegion, lines 104-119: map, copy to the output, unmap; hr is the result of Map
ReadSubresourceRegion_Map(hr) ==
    /\ pc = "read_submitted"
    /\ call' = IF hr = S_OK
               THEN [ call EXCEPT !.hr = hr, !.cpuSaw = ReadbackContent, !.outData = call.size,
                                  !.unmapped = TRUE ]
               ELSE [ call EXCEPT !.hr = hr ]
    /\ pc' = "idle"
    /\ UNCHANGED << chunkSize_, chunks_, chunkIdx_, globalUploadBuffer_, globalReadbackBuffer_,
                    uploadMapped, readbackMapped, currentState, cmdList >>

\* MapFeedbackBuffer, lines 130-141: grow the readback buffer, transition the source
\* buffer and record the copy
MapFeedbackBuffer_Record(numBytes, alignment) ==
    LET copyState == TransitionResource(currentState, D3D12_RESOURCE_STATE_COPY_SOURCE) IN
    /\ Idle
    /\ globalReadbackBuffer_' = GetReadbackBufferAndGrow(numBytes, alignment)
    /\ cmdList' = CopyBufferRegion(cmdList, "readback")
    /\ currentState' = copyState
    /\ call' = [ NoCall EXCEPT !.op = "MapFeedbackBuffer", !.size = numBytes,
                 !.oldState = currentState, !.copyState = copyState ]
    /\ pc' = "feedback_recorded"
    /\ UNCHANGED << chunkSize_, chunks_, chunkIdx_, globalUploadBuffer_, uploadMapped, readbackMapped >>

\* MapFeedbackBuffer, line 143
MapFeedbackBuffer_Submit ==
    /\ pc = "feedback_recorded"
    /\ cmdList' = FinishAndSubmitCommandContext(cmdList, TRUE)
    /\ pc' = "feedback_submitted"
    /\ UNCHANGED << chunkSize_, chunks_, chunkIdx_, globalUploadBuffer_, globalReadbackBuffer_,
                    uploadMapped, readbackMapped, currentState, call >>

\* MapFeedbackBuffer, lines 145-147: map with the read range; hr is the result of Map
MapFeedbackBuffer_Map(hr) ==
    /\ pc = "feedback_submitted"
    /\ readbackMapped' = IF hr = S_OK THEN TRUE ELSE readbackMapped
    /\ call' = IF hr = S_OK
               THEN [ call EXCEPT !.hr = hr, !.cpuSaw = ReadbackContent ]
               ELSE [ call EXCEPT !.hr = hr ]
    /\ pc' = "idle"
    /\ UNCHANGED << chunkSize_, chunks_, chunkIdx_, globalUploadBuffer_, globalReadbackBuffer_,
                    uploadMapped, currentState, cmdList >>

\* D3D12StagingBufferPool::UnmapFeedbackBuffer
UnmapFeedbackBuffer ==
    /\ Idle
    /\ readbackMapped
    /\ readbackMapped' = FALSE
    /\ call' = [ NoCall EXCEPT !.op = "UnmapFeedbackBuffer" ]
    /\ UNCHANGED << chunkSize_, chunks_, chunkIdx_, globalUploadBuffer_, globalReadbackBuffer_,
                    uploadMapped, currentState, cmdList, pc >>

\* D3D12StagingBufferPool::MapUploadBuffer; hr is the result of Map
MapUploadBuffer(size, alignment, hr) ==
    /\ Idle
    /\ globalUploadBuffer_' = GetUploadBufferAndGrow(size, alignment)
    /\ uploadMapped' = IF hr = S_OK THEN TRUE ELSE uploadMapped
    /\ call' = [ NoCall EXCEPT !.op = "MapUploadBuffer", !.size = size, !.hr = hr ]
    /\ UNCHANGED << chunkSize_, chunks_, chunkIdx_, globalReadbackBuffer_, readbackMapped,
                    currentState, cmdList, pc >>

\* UnmapUploadBuffer that transitions the destination buffer back
UnmapUploadBuffer_Restore ==
    LET copyState == TransitionResource(currentState, D3D12_RESOURCE_STATE_COPY_DEST) IN
    /\ Idle
    /\ uploadMapped
    /\ uploadMapped' = FALSE
    /\ currentState' = TransitionResource(copyState, currentState)
    /\ cmdList' = FinishAndSubmitCommandContext(CopyBufferRegion(cmdList, "buffer"), TRUE)
    /\ call' = [ NoCall EXCEPT !.op = "UnmapUploadBuffer", !.oldState = currentState,
                 !.copyState = copyState ]
    /\ UNCHANGED << chunkSize_, chunks_, chunkIdx_, globalUploadBuffer_, globalReadbackBuffer_,
                    readbackMapped, pc >>

\* D3D12StagingBufferPool::UnmapUploadBuffer
UnmapUploadBuffer ==
    LET copyState == TransitionResource(currentState, D3D12_RESOURCE_STATE_COPY_DEST) IN
    /\ Idle
    /\ uploadMapped
    /\ uploadMapped' = FALSE
    /\ currentState' = copyState
    /\ cmdList' = FinishAndSubmitCommandContext(CopyBufferRegion(cmdList, "buffer"), TRUE)
    /\ call' = [ NoCall EXCEPT !.op = "UnmapUploadBuffer", !.oldState = currentState,
                 !.copyState = copyState ]
    /\ UNCHANGED << chunkSize_, chunks_, chunkIdx_, globalUploadBuffer_, globalReadbackBuffer_,
                    readbackMapped, pc >>

EmptyStagingBuffer == [ size |-> 0, offset |-> 0 ]

\* D3D12StagingBufferPool::D3D12StagingBufferPool
InitPool ==
    /\ chunkSize_ \in ChunkSizes
    /\ chunks_ = << >>
    /\ chunkIdx_ = 0
    /\ globalUploadBuffer_ = EmptyStagingBuffer
    /\ globalReadbackBuffer_ = EmptyStagingBuffer
    /\ uploadMapped = FALSE
    /\ readbackMapped = FALSE
    /\ currentState \in ResourceStates
    /\ cmdList = { }
    /\ pc = "idle"
    /\ call = NoCall

NoLog ==
    /\ log = << >>
    /\ mode = "record"
    /\ replayed = 0
    /\ chunksAtReset = 0

----------------------------------------------------------------------------
(* OpenGL swap chain *)

Heights == { 600, 1080 }

NoQuery == [ fn |-> "none", value |-> 0 ]

\* GLSwapChain::Present
Present ==
    /\ numPresented < MaxFrames
    /\ numPresented' = numPresented + 1
    /\ UNCHANGED << framebufferHeight_, swapQuery >>

\* GLSwapChain::GetCurrentSwapIndex
GetCurrentSwapIndex ==
    /\ swapQuery' = [ fn |-> "GetCurrentSwapIndex", value |-> 0 ]
    /\ UNCHANGED << framebufferHeight_, numPresented >>

\* GLSwapChain::GetNumSwapBuffers
GetNumSwapBuffers ==
    /\ swapQuery' = [ fn |-> "GetNumSwapBuffers", value |-> 1 ]
    /\ UNCHANGED << framebufferHeight_, numPresented >>

\* GLSwapChain::ResizeBuffersPrimary
ResizeBuffersPrimary(height) ==
    /\ framebufferHeight_' = height
    /\ UNCHANGED << numPresented, swapQuery >>

----------------------------------------------------------------------------
(* Deferred OpenGL command encoding: a command is an opcode cell, the cells of its   *)
(* fixed-size header (one per field of its struct) and the cells of its payload.     *)

VariableCommands == { "BufferSubData", "ViewportArray", "ScissorArray",
                      "ClearAttachmentsWithRenderPass", "ClearBuffers", "BindBuffersBase",
                      "SetUniforms", "PushDebugGroup" }
FixedCommands == { "Clear", "DrawArrays" }
GLOpcodes == << "BufferSubData", "ViewportArray", "ScissorArray",
                "ClearAttachmentsWithRenderPass", "ClearBuffers", "BindBuffersBase",
                "SetUniforms", "PushDebugGroup", "Clear", "DrawArrays" >>

\* the opcode cell of a command: its index in GLOpcodes
Opcode(op) == CHOOSE i \in 1..Len(GLOpcodes) : GLOpcodes[i] = op

\* element counts of the payloads, and the cells of one uniform of a UniformType
Counts == { 0, 1 }
UniformTypes == { "Float1", "Float2" }
UniformCells(type) == IF type = "Float2" THEN 2 ELSE 1

\* the fields of each command struct, in declaration order
HeaderFields(op) ==
    CASE op = "BufferSubData" -> << "buffer", "offset", "size" >>
      [] op = "ViewportArray" -> << "first", "count" >>
      [] op = "ScissorArray" -> << "first", "count" >>
      [] op = "ClearAttachmentsWithRenderPass" -> << "renderPass", "numClearValues" >>
      [] op = "ClearBuffers" -> << "numAttachments" >>
      [] op = "BindBuffersBase" -> << "target", "first", "count" >>
      [] op = "SetUniforms" -> << "program", "type", "location", "count", "size" >>
      [] op = "PushDebugGroup" -> << "source", "id", "length" >>
      [] op = "Clear" -> << "flags" >>
      [] op = "DrawArrays" -> << "mode", "first", "count" >>

\* the value of field name in the header cells of a command
Field(op, header, name) ==
    header[CHOOSE i \in 1..Len(HeaderFields(op)) : HeaderFields(op)[i] = name]

\* SetUniforms taking its payload size from "count"
PayloadCells_UniformCount(op, header) ==
    CASE op = "BufferSubData" -> Field(op, header, "size")
      [] op = "ViewportArray" -> Field(op, header, "count") + Field(op, header, "count")
      [] op = "ScissorArray" -> Field(op, header, "count")
      [] op = "ClearAttachmentsWithRenderPass" -> Field(op, header, "numClearValues")
      [] op = "ClearBuffers" -> Field(op, header, "numAttachments")
      [] op = "BindBuffersBase" -> Field(op, header, "count")
      [] op = "SetUniforms" -> Field(op, header, "count")
      [] op = "PushDebugGroup" -> Field(op, header, "length")
      [] OTHER -> 0

\* the number of payload cells that follow a header, as the trailing arrays of the structs
\* declare it: data[size], viewports[count] and depthRanges[count], scissors[count],
\* clearValues[numClearValues], attachments[numAttachments], buffer[count], buffer[size],
\* name[length]
PayloadCells(op, header) ==
    CASE op = "BufferSubData" -> Field(op, header, "size")
      [] op = "ViewportArray" -> Field(op, header, "count") + Field(op, header, "count")
      [] op = "ScissorArray" -> Field(op, header, "count")
      [] op = "ClearAttachmentsWithRenderPass" -> Field(op, header, "numClearValues")
      [] op = "ClearBuffers" -> Field(op, header, "numAttachments")
      [] op = "BindBuffersBase" -> Field(op, header, "count")
      [] op = "SetUniforms" -> Field(op, header, "size")
      [] op = "PushDebugGroup" -> Field(op, header, "length")
      [] OTHER -> 0

\* a payload of n cells; every cell holds a value that is also an opcode
Payload(n) == [ i \in 1..n |-> 1 + (i % Len(GLOpcodes)) ]

\* the commands a client records: for each variable-length command the header the
\* encoder fills in for n elements (for SetUniforms: n uniforms of a type) and the payload
\* the client passes
Command(op, n, type) ==
    CASE op = "BufferSubData" -> [ op |-> op, header |-> << 7, 0, n >>, payload |-> Payload(n) ]
      [] op = "ViewportArray" -> [ op |-> op, header |-> << 0, n >>, payload |-> Payload(n + n) ]
      [] op = "ScissorArray" -> [ op |-> op, header |-> << 0, n >>, payload |-> Payload(n) ]
      [] op = "ClearAttachmentsWithRenderPass" ->
            [ op |-> op, header |-> << 7, n >>, payload |-> Payload(n) ]
      [] op = "ClearBuffers" -> [ op |-> op, header |-> << n >>, payload |-> Payload(n) ]
      [] op = "BindBuffersBase" -> [ op |-> op, header |-> << 1, 0, n >>, payload |-> Payload(n) ]
      [] op = "SetUniforms" ->
            [ op |-> op, header |-> << 7, UniformCells(type), 0, n, n * UniformCells(type) >>,
              payload |-> Payload(n * UniformCells(type)) ]
      [] op = "PushDebugGroup" -> [ op |-> op, header |-> << 0, 0, n >>, payload |-> Payload(n) ]
      [] op = "Clear" -> [ op |-> op, header |-> << 3 >>, payload |-> << >> ]
      [] op = "DrawArrays" -> [ op |-> op, header |-> << 4, 0, n >>, payload |-> << >> ]

\* the cells of an encoded command
Encode(cmd) == << Opcode(cmd.op) >> \o cmd.header \o cmd.payload

\* replay of the stream from cell pos: the commands found and the cells consumed; a cell
\* that is no opcode, or a command that runs past the end of the stream, ends the replay
RECURSIVE ExecuteFrom(_, _, _)
ExecuteFrom(buffer, pos, found) ==
    IF pos > Len(buffer)
    THEN [ commands |-> found, consumed |-> pos - 1, ok |-> TRUE ]
    ELSE IF buffer[pos] \notin 1..Len(GLOpcodes)
    THEN [ commands |-> found, consumed |-> pos - 1, ok |-> FALSE ]
    ELSE LET op == GLOpcodes[buffer[pos]]
             hlen == Len(HeaderFields(op))
         IN
         IF pos + hlen > Len(buffer)
         THEN [ commands |-> found, consumed |-> pos - 1, ok |-> FALSE ]
         ELSE LET header == SubSeq(buffer, pos + 1, pos + hlen)
                  plen == PayloadCells(op, header)
              IN
              IF pos + hlen + plen > Len(buffer)
              THEN [ commands |-> found, consumed |-> pos - 1, ok |-> FALSE ]
              ELSE ExecuteFrom(buffer, pos + hlen + plen + 1,
                               Append(found, [ op |-> op, header |-> header,
                                               payload |-> SubSeq(buffer, pos + hlen + 1,
                                                                  pos + hlen + plen) ]))

NotExecuted == [ commands |-> << >>, consumed |-> 0, ok |-> FALSE ]

\* the command buffer records a command
RecordCommand(cmd) ==
    /\ Len(glCommands) < MaxCommands
    /\ glBuffer' = glBuffer \o Encode(cmd)
    /\ glCommands' = Append(glCommands, cmd)
    /\ glExecuted' = NotExecuted

\* the command queue submits the command buffer: the stream is replayed
ExecuteCommands ==
    /\ glExecuted' = ExecuteFrom(glBuffer, 1, << >>)
    /\ UNCHANGED << glBuffer, glCommands >>

swapVars == << framebufferHeight_, numPresented, swapQuery >>
cmdVars == << glBuffer, glCommands, glExecuted >>

InitGL ==
    /\ framebufferHeight_ \in Heights
    /\ numPresented = 0
    /\ swapQuery = NoQuery
    /\ glBuffer = << >>
    /\ glCommands = << >>
    /\ glExecuted = NotExecuted

----------------------------------------------------------------------------
(* Shader program *)

\* the shaders of the model and Shader::GetType
Shaders == { "vertexA", "vertexB", "fragmentA", "fragmentB", "computeA" }
GetType(shader) ==
    CASE shader \in { "vertexA", "vertexB" } -> "Vertex"
      [] shader \in { "fragmentA", "fragmentB" } -> "Fragment"
      [] shader = "computeA" -> "Compute"

NoShaderCall == [ op |-> "none", shader |-> "-", threw |-> "-", result |-> FALSE, afterDetach |-> FALSE ]

\* a different shader of the same type is attached
TypeOccupied(shader) ==
    \E other \in attached : other # shader /\ GetType(other) = GetType(shader)

\* ShaderProgram::ValidateShaderComposition: a compute shader stands alone, and a
\* fragment shader needs a vertex shader
ValidateShaderComposition(shaders) ==
    LET types == { GetType(sh) : sh \in shaders } IN
    \/ types = { "Compute" }
    \/ types = { "Vertex" }
    \/ types = { "Vertex", "Fragment" }

\* AttachShader attaching whatever it is given
AttachShader_NoTypeCheck(shader) ==
    /\ attached' = attached \cup { shader }
    /\ shaderCall' = [ NoShaderCall EXCEPT !.op = "AttachShader", !.shader = shader,
                       !.afterDetach = shaderCall.afterDetach ]
    /\ UNCHANGED linked

\* ShaderProgram::AttachShader
AttachShader(shader) ==
    IF TypeOccupied(shader)
    THEN /\ shaderCall' = [ NoShaderCall EXCEPT !.op = "AttachShader", !.shader = shader,
                            !.threw = "std::invalid_argument",
                            !.afterDetach = shaderCall.afterDetach ]
         /\ UNCHANGED << attached, linked >>
    ELSE /\ attached' = attached \cup { shader }
         /\ shaderCall' = [ NoShaderCall EXCEPT !.op = "AttachShader", !.shader = shader,
                            !.afterDetach = shaderCall.afterDetach ]
         /\ UNCHANGED linked

\* DetachAll that leaves the link status as it is
DetachAll_KeepLinkStatus ==
    /\ attached' = { }
    /\ shaderCall' = [ NoShaderCall EXCEPT !.op = "DetachAll", !.afterDetach = TRUE ]
    /\ UNCHANGED linked

\* ShaderProgram::DetachAll
DetachAll ==
    /\ attached' = { }
    /\ linked' = FALSE
    /\ shaderCall' = [ NoShaderCall EXCEPT !.op = "DetachAll", !.afterDetach = TRUE ]

\* ShaderProgram::LinkShaders; success is whether the native linker accepts the shaders
LinkShaders(success) ==
    LET result == success /\ ValidateShaderComposition(attached) IN
    /\ linked' = result
    /\ shaderCall' = [ NoShaderCall EXCEPT !.op = "LinkShaders", !.result = result,
                       !.afterDetach = shaderCall.afterDetach /\ ~result ]
    /\ UNCHANGED attached

InitShaderProgram ==
    /\ attached = { }
    /\ linked = FALSE
    /\ shaderCall = NoShaderCall

----------------------------------------------------------------------------
(* Testbed main *)

\* strings, as sequences of characters
Str_Testbed == << "T", "e", "s", "t", "b", "e", "d" >>
Str_h == << "-", "h" >>
Str_help == << "-", "-", "h", "e", "l", "p" >>
Str_d == << "-", "d" >>
Str_gl == << "g", "l" >>
Str_opengl == << "o", "p", "e", "n", "g", "l" >>
Str_vk == << "v", "k" >>
Str_vulkan == << "v", "u", "l", "k", "a", "n" >>
Str_mt == << "m", "t" >>
Str_mtl == << "m", "t", "l" >>
Str_metal == << "m", "e", "t", "a", "l" >>
Str_d3d11 == << "d", "3", "d", "1", "1" >>
Str_dx11 == << "d", "x", "1", "1" >>
Str_direct3d11 == << "d", "i", "r", "e", "c", "t", "3", "d", "1", "1" >>
Str_d3d12 == << "d", "3", "d", "1", "2" >>
Str_dx12 == << "d", "x", "1", "2" >>
Str_direct3d12 == << "d", "i", "r", "e", "c", "t", "3", "d", "1", "2" >>
Str_null == << "n", "u", "l", "l" >>
Str_gl330 == << "g", "l", "3", "3", "0" >>
Str_OpenGL == << "O", "p", "e", "n", "G", "L" >>
Str_Vulkan == << "V", "u", "l", "k", "a", "n" >>
Str_Metal == << "M", "e", "t", "a", "l" >>
Str_Direct3D11 == << "D", "i", "r", "e", "c", "t", "3", "D", "1", "1" >>
Str_Direct3D12 == << "D", "i", "r", "e", "c", "t", "3", "D", "1", "2" >>
Str_Null == << "N", "u", "l", "l" >>

Digits == << "0", "1", "2", "3", "4", "5", "6", "7", "8", "9" >>
IsDigit(c) == \E i \in 1..Len(Digits) : Digits[i] = c
DigitValue(c) == (CHOOSE i \in 1..Len(Digits) : Digits[i] = c) - 1

\* std::atoi on a string of digits
RECURSIVE AtoiFrom(_, _)
AtoiFrom(str, acc) ==
    IF str = << >> \/ ~IsDigit(Head(str)) THEN acc
    ELSE AtoiFrom(Tail(str), acc * 10 + DigitValue(Head(str)))
Atoi(str) == AtoiFrom(str, 0)

\* std::regex_search in place of std::regex_match: the name only has to start with the pattern
MatchesVersioned_Search(name, prefix) ==
    /\ Len(name) >= Len(prefix) + 3
    /\ SubSeq(name, 1, Len(prefix)) = prefix
    /\ \A i \in (Len(prefix) + 1)..(Len(prefix) + 3) : IsDigit(name[i])

\* std::regex_match(name, prefix\d{3})
MatchesVersioned(name, prefix) ==
    /\ Len(name) = Len(prefix) + 3
    /\ SubSeq(name, 1, Len(prefix)) = prefix
    /\ \A i \in (Len(prefix) + 1)..Len(name) : IsDigit(name[i])

ModuleAndVersion(name, version) == [ name |-> name, version |-> version ]

\* GetRendererModule
GetRendererModule(name) ==
    IF name = Str_gl \/ name = Str_opengl THEN ModuleAndVersion(Str_OpenGL, 0)
    ELSE IF name = Str_vk \/ name = Str_vulkan THEN ModuleAndVersion(Str_Vulkan, 0)
    ELSE IF name = Str_mt \/ name = Str_mtl \/ name = Str_metal THEN ModuleAndVersion(Str_Metal, 0)
    ELSE IF name = Str_d3d11 \/ name = Str_dx11 \/ name = Str_direct3d11
         THEN ModuleAndVersion(Str_Direct3D11, 0)
    ELSE IF name = Str_d3d12 \/ name = Str_dx12 \/ name = Str_direct3d12
         THEN ModuleAndVersion(Str_Direct3D12, 0)
    ELSE IF name = Str_null THEN ModuleAndVersion(Str_Null, 0)
    ELSE IF MatchesVersioned(name, Str_gl)
         THEN ModuleAndVersion(Str_OpenGL, Atoi(SubSeq(name, 3, Len(name))))
    ELSE IF MatchesVersioned(name, Str_opengl)
         THEN ModuleAndVersion(Str_OpenGL, Atoi(SubSeq(name, 7, Len(name))))
    ELSE ModuleAndVersion(name, 0)

\* HasProgramArgument that looks at argv[1] only
HasProgramArgument_FirstOnly(args, search) == Len(args) >= 2 /\ args[2] = search

\* HasProgramArgument: args[1] is argv[0], the loop starts at argv[1]
HasProgramArgument(args, search) == \E i \in 2..Len(args) : args[i] = search

\* the loop of GuardedMain that gathers the explicitly specified modules, from argv[i-1] on
RECURSIVE GatherModules(_, _)
GatherModules(args, i) ==
    IF i > Len(args) THEN << >>
    ELSE IF args[i] = << >> \/ args[i][1] # "-"
         THEN << GetRendererModule(args[i]) >> \o GatherModules(args, i + 1)
         ELSE GatherModules(args, i + 1)

\* lines 133-147 of GuardedMain: the enabled modules
EnabledModules(args, available) ==
    LET explicit == GatherModules(args, 2) IN
    IF explicit = << >>
    THEN [ i \in 1..Len(available) |-> ModuleAndVersion(available[i], 0) ]
    ELSE explicit

\* inputs: program names, arguments, results of FindModules, failure counts of a test run
ProgramNames == { Str_Testbed, Str_h }
ArgPool == { Str_h, Str_help, Str_d, Str_gl, Str_gl330, Str_vulkan }
ModuleLists == { << >>, << Str_OpenGL >>, << Str_OpenGL, Str_Vulkan >> }
Failures == { 0, 2 }

RECURSIVE SeqsUpTo(_, _)
SeqsUpTo(S, n) ==
    IF n = 0 THEN { << >> }
    ELSE LET shorter == SeqsUpTo(S, n - 1) IN
         shorter \cup { Append(q, x) : q \in shorter, x \in S }

\* GuardedMain, lines 124-147: print the help document and return 0, or gather the modules
GuardedMain_Begin ==
    /\ tbPc = "begin"
    /\ IF HasProgramArgument(argv, Str_h) \/ HasProgramArgument(argv, Str_help)
       THEN /\ printed' = Append(printed, "help")
            /\ exitCode' = 0
            /\ tbPc' = "exited"
            /\ UNCHANGED enabledModules
       ELSE /\ enabledModules' = EnabledModules(argv, availableModules)
            /\ tbPc' = "independent"
            /\ UNCHANGED << printed, exitCode >>
    /\ UNCHANGED << argv, availableModules, moduleIdx, modulesWithFailedTests, testRuns, threw >>

\* GuardedMain, lines 149-153: the renderer independent tests report failures
GuardedMain_RunRendererIndependentTests(failures) ==
    /\ tbPc = "independent"
    /\ testRuns' = Append(testRuns, [ name |-> << >>, version |-> 0, failures |-> failures ])
    /\ modulesWithFailedTests' = IF failures # 0 THEN modulesWithFailedTests + 1
                                 ELSE modulesWithFailedTests
    /\ tbPc' = "modules"
    /\ UNCHANGED << argv, availableModules, enabledModules, moduleIdx, printed, exitCode, threw >>

\* the loop body counting the failures instead of the modules
GuardedMain_RunTestbedForRenderer_AddFailures(failures) ==
    /\ tbPc = "modules"
    /\ moduleIdx < Len(enabledModules)
    /\ testRuns' = Append(testRuns, [ name |-> enabledModules[moduleIdx + 1].name,
                                      version |-> enabledModules[moduleIdx + 1].version,
                                      failures |-> failures ])
    /\ modulesWithFailedTests' = modulesWithFailedTests + failures
    /\ moduleIdx' = moduleIdx + 1
    /\ UNCHANGED << argv, availableModules, tbPc, enabledModules, printed, exitCode, threw >>

\* GuardedMain, lines 156-160: one iteration, the testbed of the next enabled module
\* reports failures
GuardedMain_RunTestbedForRenderer(failures) ==
    /\ tbPc = "modules"
    /\ moduleIdx < Len(enabledModules)
    /\ testRuns' = Append(testRuns, [ name |-> enabledModules[moduleIdx + 1].name,
                                      version |-> enabledModules[moduleIdx + 1].version,
                                      failures |-> failures ])
    /\ modulesWithFailedTests' = IF failures # 0 THEN modulesWithFailedTests + 1
                                 ELSE modulesWithFailedTests
    /\ moduleIdx' = moduleIdx + 1
    /\ UNCHANGED << argv, availableModules, tbPc, enabledModules, printed, exitCode, threw >>

\* the testbed of the next enabled module throws: main (lines 222-231) returns 1
GuardedMain_TestbedThrows ==
    /\ tbPc = "modules"
    /\ moduleIdx < Len(enabledModules)
    /\ threw' = TRUE
    /\ exitCode' = 1
    /\ tbPc' = "exited"
    /\ UNCHANGED << argv, availableModules, enabledModules, moduleIdx, modulesWithFailedTests,
                    testRuns, printed >>

\* the loop over the modules left at the first module that reports a failure
GuardedMain_PrintSummary_StopOnFailure ==
    /\ tbPc = "modules"
    /\ moduleIdx = Len(enabledModules) \/ (moduleIdx > 0 /\ testRuns[Len(testRuns)].failures # 0)
    /\ printed' = Append(printed,
                         IF modulesWithFailedTests = 0 THEN "ALL MODULES PASSED"
                         ELSE IF modulesWithFailedTests = 1 THEN "1 MODULE FAILED"
                         ELSE "MODULES FAILED")
    /\ exitCode' = modulesWithFailedTests
    /\ tbPc' = "exited"
    /\ UNCHANGED << argv, availableModules, enabledModules, moduleIdx, modulesWithFailedTests,
                    testRuns, threw >>

\* GuardedMain, lines 162-175: print the summary and return the number of failed modules
GuardedMain_PrintSummary ==
    /\ tbPc = "modules"
    /\ moduleIdx = Len(enabledModules)
    /\ printed' = Append(printed,
                         IF modulesWithFailedTests = 0 THEN "ALL MODULES PASSED"
                         ELSE IF modulesWithFailedTests = 1 THEN "1 MODULE FAILED"
                         ELSE "MODULES FAILED")
    /\ exitCode' = modulesWithFailedTests
    /\ tbPc' = "exited"
    /\ UNCHANGED << argv, availableModules, enabledModules, moduleIdx, modulesWithFailedTests,
                    testRuns, threw >>

\* the state at the call of main, for given arguments and available modules
TestbedAt(args, available) ==
    /\ argv = args
    /\ availableModules = available
    /\ tbPc = "begin"
    /\ enabledModules = << >>
    /\ moduleIdx = 0
    /\ modulesWithFailedTests = 0
    /\ testRuns = << >>
    /\ printed = << >>
    /\ exitCode = 0
    /\ threw = FALSE

NoTestbed == TestbedAt(<< Str_Testbed >>, << >>)

InitTestbed ==
    \E name \in ProgramNames, args \in SeqsUpTo(ArgPool, MaxArgs), available \in ModuleLists :
        TestbedAt(<< name >> \o args, available)

----------------------------------------------------------------------------
(* GetRendererModule on its own *)

NoModule == [ name |-> << >>, version |-> -1 ]

\* the names tried: every alias, and gl, opengl and vk followed by up to MaxSuffix characters
Aliases == { Str_gl, Str_opengl, Str_vk, Str_vulkan, Str_mt, Str_mtl, Str_metal, Str_d3d11,
             Str_dx11, Str_direct3d11, Str_d3d12, Str_dx12, Str_direct3d12, Str_null,
             Str_OpenGL, Str_Null }
NamePrefixes == { Str_gl, Str_opengl, Str_vk }
SuffixChars == { "0", "3", "a" }
ModuleNames == Aliases \cup { p \o q : p \in NamePrefixes, q \in SeqsUpTo(SuffixChars, MaxSuffix) }

\* a call GetRendererModule(moduleArg)
GetRendererModule_Call ==
    /\ moduleResult = NoModule
    /\ moduleResult' = GetRendererModule(moduleArg)
    /\ UNCHANGED moduleArg

NoModuleCall ==
    /\ moduleArg = << >>
    /\ moduleResult = NoModule

InitModule ==
    /\ moduleArg \in ModuleNames
    /\ moduleResult = NoModule

----------------------------------------------------------------------------
(* GetSelectedRendererModule *)

\* the largest std::size_t, the result of --selection for selection = 0; it stands for
\* 2^64 - 1 and only has to be no valid index
SIZE_MAX == 2147483647

SelectArgs == { Str_gl, Str_vulkan, Str_h, << >> }
SelectModuleLists == { << >>, << Str_OpenGL >>, << Str_OpenGL, Str_Vulkan >>,
                       << Str_OpenGL, Str_Vulkan, Str_Null >> }

\* the function up to the prompt, with argv[0] taken for the argument
GetSelectedRendererModule_Begin_Argv0 ==
    /\ selPc = "begin"
    /\ IF Len(selArgv) > 1
       THEN rendererModule' = selArgv[1] /\ selPc' = "returned"
       ELSE IF selModules = << >>
       THEN selPc' = "threw" /\ UNCHANGED rendererModule
       ELSE IF Len(selModules) = 1
       THEN rendererModule' = Head(selModules) /\ selPc' = "returned"
       ELSE selPc' = "prompt" /\ UNCHANGED rendererModule
    /\ UNCHANGED << selArgv, selModules, selPrompts >>

\* lines 30-57: argv[1] if given, else the only module, else std::runtime_error or the prompt
GetSelectedRendererModule_Begin ==
    /\ selPc = "begin"
    /\ IF Len(selArgv) > 1
       THEN rendererModule' = selArgv[2] /\ selPc' = "returned"
       ELSE IF selModules = << >>
       THEN selPc' = "threw" /\ UNCHANGED rendererModule
       ELSE IF Len(selModules) = 1
       THEN rendererModule' = Head(selModules) /\ selPc' = "returned"
       ELSE selPc' = "prompt" /\ UNCHANGED rendererModule
    /\ UNCHANGED << selArgv, selModules, selPrompts >>

\* lines 61-77: one round of the prompt; input is the number read, 0 when reading fails
GetSelectedRendererModule_Prompt(input) ==
    /\ selPc = "prompt"
    /\ selPrompts < MaxPrompts
    /\ selPrompts' = selPrompts + 1
    /\ LET selection == IF input = 0 THEN SIZE_MAX ELSE input - 1 IN
       IF selection < Len(selModules)
       THEN /\ rendererModule' = selModules[selection + 1]
            /\ selPc' = IF selModules[selection + 1] = << >> THEN "prompt" ELSE "returned"
       ELSE UNCHANGED << rendererModule, selPc >>
    /\ UNCHANGED << selArgv, selModules >>

SelectAt(args, modules) ==
    /\ selArgv = args
    /\ selModules = modules
    /\ selPc = "begin"
    /\ rendererModule = << >>
    /\ selPrompts = 0

NoSelect == SelectAt(<< Str_Testbed >>, << >>)

InitSelect ==
    \E args \in SeqsUpTo(SelectArgs, MaxArgs), modules \in SelectModuleLists :
        SelectAt(<< Str_Testbed >> \o args, modules)

----------------------------------------------------------------------------
(* Canvas *)

EventListeners == { "listenerA", "listenerB", "listenerC" }

NoCanvasCall == [ op |-> "none", listener |-> "-", before |-> << >> ]

Contains(list, entry) == \E i \in 1..Len(list) : list[i] = entry

\* AddOnceToSharedList: append the entry unless the list has it
AddOnceToSharedList(list, entry) ==
    IF Contains(list, entry) THEN list ELSE Append(list, entry)

\* RemoveFromSharedList: erase the first element that is the entry
RemoveFromSharedList(list, entry) ==
    IF Contains(list, entry)
    THEN LET i == CHOOSE k \in 1..Len(list) :
                     list[k] = entry /\ \A j \in 1..(k - 1) : list[j] # entry IN
         SubSeq(list, 1, i - 1) \o SubSeq(list, i + 1, Len(list))
    ELSE list

\* AddEventListener that appends without looking for the listener
AddEventListener_Append(eventListener) ==
    /\ canvasPc = "idle"
    /\ eventListeners_' = Append(eventListeners_, eventListener)
    /\ canvasCall' = [ op |-> "AddEventListener", listener |-> eventListener,
                       before |-> eventListeners_ ]
    /\ UNCHANGED << canvasPc, notifyIdx, listenersAtCall, canvasEvents >>

\* Canvas::AddEventListener
AddEventListener(eventListener) ==
    /\ canvasPc = "idle"
    /\ eventListeners_' = AddOnceToSharedList(eventListeners_, eventListener)
    /\ canvasCall' = [ op |-> "AddEventListener", listener |-> eventListener,
                       before |-> eventListeners_ ]
    /\ UNCHANGED << canvasPc, notifyIdx, listenersAtCall, canvasEvents >>

\* Canvas::RemoveEventListener
RemoveEventListener(eventListener) ==
    /\ canvasPc = "idle"
    /\ eventListeners_' = RemoveFromSharedList(eventListeners_, eventListener)
    /\ canvasCall' = [ op |-> "RemoveEventListener", listener |-> eventListener,
                       before |-> eventListeners_ ]
    /\ UNCHANGED << canvasPc, notifyIdx, listenersAtCall, canvasEvents >>

\* ProcessEvents that calls the canvas's own OnProcessEvents first
ProcessEvents_Begin_CanvasFirst ==
    /\ canvasPc = "idle"
    /\ canvasPc' = "listeners"
    /\ notifyIdx' = 1
    /\ listenersAtCall' = eventListeners_
    /\ canvasEvents' = << "canvas" >>
    /\ UNCHANGED << eventListeners_, canvasCall >>

\* Canvas::ProcessEvents is called: the loop of FOREACH_LISTENER_CALL starts
ProcessEvents_Begin ==
    /\ canvasPc = "idle"
    /\ canvasPc' = "listeners"
    /\ notifyIdx' = 1
    /\ listenersAtCall' = eventListeners_
    /\ canvasEvents' = << >>
    /\ UNCHANGED << eventListeners_, canvasCall >>

\* one iteration of FOREACH_LISTENER_CALL: lst->OnProcessEvents(*this), which is the
\* empty EventListener::OnProcessEvents
ProcessEvents_Notify ==
    /\ canvasPc = "listeners"
    /\ notifyIdx <= Len(eventListeners_)
    /\ canvasEvents' = Append(canvasEvents, eventListeners_[notifyIdx])
    /\ notifyIdx' = notifyIdx + 1
    /\ UNCHANGED << eventListeners_, canvasPc, listenersAtCall, canvasCall >>

\* the loop is over: the canvas's own OnProcessEvents is called and ProcessEvents returns
ProcessEvents_OnProcessEvents ==
    /\ canvasPc = "listeners"
    /\ notifyIdx > Len(eventListeners_)
    /\ canvasEvents' = Append(canvasEvents, "canvas")
    /\ canvasPc' = "idle"
    /\ UNCHANGED << eventListeners_, notifyIdx, listenersAtCall, canvasCall >>

InitCanvas ==
    /\ eventListeners_ = << >>
    /\ canvasPc = "idle"
    /\ notifyIdx = 1
    /\ listenersAtCall = << >>
    /\ canvasEvents = << >>
    /\ canvasCall = NoCanvasCall

----------------------------------------------------------------------------
(* Tutorial::ReloadShaderProgram *)

\* the shaders a loaded program was built from, in the order of its descriptors
LoadedPrograms == { << "vertexA" >>, << "vertexA", "fragmentA" >>, << "fragmentA", "vertexA" >>,
                    << "vertexB", "fragmentA" >> }

Range(list) == { list[i] : i \in 1..Len(list) }

\* renderer->CreateShader(type): a new shader object of the type, none of those in use
CreateShader(type) ==
    CHOOSE sh \in Shaders :
        GetType(sh) = type /\ sh \notin (attached \cup Range(recallShaders) \cup Range(newShaders))

\* lines 451-464: look the program up; return false if it is unknown, else DetachAll
ReloadShaderProgram_Begin ==
    /\ reloadPc \in { "idle", "done" }
    /\ reloadResult # "threw"
    /\ reloads < MaxReloads
    /\ reloads' = reloads + 1
    /\ recallAtCall' = recallShaders
    /\ newShaders' = << >>
    /\ releasedShaders' = { }
    /\ reloadIdx' = 1
    /\ reloadFailed' = FALSE
    /\ IF ~known
       THEN /\ reloadResult' = "false"
            /\ reloadPc' = "done"
            /\ UNCHANGED shaderVars
       ELSE /\ DetachAll
            /\ reloadResult' = "none"
            /\ reloadPc' = "try"
    /\ UNCHANGED << known, shaderDescs, recallShaders >>

\* lines 469-492: one iteration of the loop that recompiles; compiled is FALSE when
\* ReadFileContent, CreateShader or Compile throws
ReloadShaderProgram_Recompile(compiled) ==
    /\ reloadPc = "try"
    /\ reloadIdx <= Len(shaderDescs)
    /\ LET shader == CreateShader(shaderDescs[reloadIdx]) IN
       IF ~compiled
       THEN /\ reloadPc' = "catch"
            /\ reloadIdx' = 1
            /\ reloadFailed' = TRUE
            /\ UNCHANGED << shaderVars, newShaders >>
       ELSE /\ AttachShader(shader)
            /\ IF TypeOccupied(shader)
               THEN /\ reloadPc' = "catch"
                    /\ reloadIdx' = 1
                    /\ reloadFailed' = TRUE
                    /\ UNCHANGED newShaders
               ELSE /\ newShaders' = Append(newShaders, shader)
                    /\ reloadIdx' = reloadIdx + 1
                    /\ UNCHANGED << reloadPc, reloadFailed >>
    /\ UNCHANGED << known, shaderDescs, recallShaders, recallAtCall, releasedShaders, reloadResult, reloads >>

\* lines 494-500: link the recompiled shaders, throw if that fails
ReloadShaderProgram_Link(success) ==
    /\ reloadPc = "try"
    /\ reloadIdx > Len(shaderDescs)
    /\ LinkShaders(success)
    /\ reloadIdx' = 1
    /\ IF linked'
       THEN reloadPc' = "release" /\ UNCHANGED reloadFailed
       ELSE reloadPc' = "catch" /\ reloadFailed' = TRUE
    /\ UNCHANGED << known, shaderDescs, recallShaders, recallAtCall, newShaders, releasedShaders, reloadResult, reloads >>

\* lines 502-509: one iteration of the loop that attaches the previous shaders again;
\* an exception of AttachShader leaves the handler and the function
ReloadShaderProgram_AttachPrevious ==
    /\ reloadPc = "catch"
    /\ reloadIdx <= Len(recallShaders)
    /\ AttachShader(recallShaders[reloadIdx])
    /\ IF TypeOccupied(recallShaders[reloadIdx])
       THEN /\ reloadResult' = "threw"
            /\ reloadPc' = "done"
            /\ UNCHANGED reloadIdx
       ELSE /\ reloadIdx' = reloadIdx + 1
            /\ UNCHANGED << reloadPc, reloadResult >>
    /\ UNCHANGED << known, shaderDescs, recallShaders, recallAtCall, newShaders, releasedShaders, reloadFailed, reloads >>

\* lines 511-519: link the previous shaders, throw if that fails, else return false;
\* the shaders of recall.shaders linked when the program was loaded and link again
ReloadShaderProgram_LinkPrevious(success) ==
    /\ reloadPc = "catch"
    /\ reloadIdx > Len(recallShaders)
    /\ attached = Range(recallShaders) => success
    /\ LinkShaders(success)
    /\ reloadResult' = IF linked' THEN "false" ELSE "threw"
    /\ reloadPc' = "done"
    /\ UNCHANGED << known, shaderDescs, recallShaders, recallAtCall, newShaders, releasedShaders,
                    reloadIdx, reloadFailed, reloads >>

\* lines 522-529: release the previous shaders, store the new ones and return true
ReloadShaderProgram_Release ==
    /\ reloadPc = "release"
    /\ releasedShaders' = releasedShaders \cup Range(recallShaders)
    /\ recallShaders' = newShaders
    /\ reloadResult' = "true"
    /\ reloadPc' = "done"
    /\ UNCHANGED << shaderVars, known, shaderDescs, recallAtCall, newShaders, reloadIdx, reloadFailed, reloads >>

\* a program loaded by LoadShaderProgram from the given shaders, before a reload
ReloadAt(isKnown, loaded) ==
    /\ known = isKnown
    /\ shaderDescs = [ i \in 1..Len(loaded) |-> GetType(loaded[i]) ]
    /\ recallShaders = loaded
    /\ recallAtCall = loaded
    /\ newShaders = << >>
    /\ releasedShaders = { }
    /\ reloadPc = "idle"
    /\ reloadIdx = 1
    /\ reloadFailed = FALSE
    /\ reloadResult = "none"
    /\ reloads = 0

NoReload == ReloadAt(FALSE, << >>)

InitReload ==
    \E isKnown \in BOOLEAN, loaded \in LoadedPrograms :
        /\ ReloadAt(isKnown, loaded)
        /\ attached = Range(loaded)
        /\ linked = TRUE
        /\ shaderCall = NoShaderCall

NoExtra ==
    /\ NoModuleCall
    /\ NoSelect
    /\ InitCanvas
    /\ NoReload

nonPoolVars == << glVars, shaderVars, testbedVars, extraVars >>

InitNonPool ==
    /\ InitGL
    /\ framebufferHeight_ = 600
    /\ InitShaderProgram
    /\ NoTestbed
    /\ NoExtra

\* the chunk operations of the pool
NextChunks ==
    \/ \E c \in ChunkSizes : InitializeDevice(c) /\ UNCHANGED << logVars, nonPoolVars >>
    \/ Reset /\ UNCHANGED << logVars, nonPoolVars >>
    \/ \E d \in DataSizes, hr \in HResults : WriteStaged(d, hr) /\ UNCHANGED << logVars, nonPoolVars >>

InitChunks ==
    /\ InitPool
    /\ NoLog
    /\ InitNonPool

SpecChunks == InitChunks /\ [][NextChunks]_vars

\* the operations on the global upload and readback buffers
NextPool ==
    \/ \E d \in GlobalSizes, a \in Alignments, hr \in HResults :
          WriteImmediate(d, a, hr) /\ UNCHANGED << logVars, nonPoolVars >>
    \/ \E d \in GlobalSizes, a \in Alignments :
          ReadSubresourceRegion_Record(d, a) /\ UNCHANGED << logVars, nonPoolVars >>
    \/ ReadSubresourceRegion_Submit /\ UNCHANGED << logVars, nonPoolVars >>
    \/ \E hr \in HResults : ReadSubresourceRegion_Map(hr) /\ UNCHANGED << logVars, nonPoolVars >>
    \/ \E d \in GlobalSizes, a \in Alignments :
          MapFeedbackBuffer_Record(d, a) /\ UNCHANGED << logVars, nonPoolVars >>
    \/ MapFeedbackBuffer_Submit /\ UNCHANGED << logVars, nonPoolVars >>
    \/ \E hr \in HResults : MapFeedbackBuffer_Map(hr) /\ UNCHANGED << logVars, nonPoolVars >>
    \/ UnmapFeedbackBuffer /\ UNCHANGED << logVars, nonPoolVars >>
    \/ \E d \in GlobalSizes, a \in Alignments, hr \in HResults :
          MapUploadBuffer(d, a, hr) /\ UNCHANGED << logVars, nonPoolVars >>
    \/ UnmapUploadBuffer /\ UNCHANGED << logVars, nonPoolVars >>

SpecPool == InitChunks /\ [][NextPool]_vars

\* the three transfer operations that restore the buffer's state
NextTransfer ==
    \/ \E d \in DataSizes, hr \in HResults :
          /\ Len(SelectChunk(chunks_, chunkIdx_, d).chunks) <= MaxTransferChunks
          /\ WriteStaged(d, hr)
          /\ UNCHANGED << logVars, nonPoolVars >>
    \/ \E d \in GlobalSizes, a \in Alignments, hr \in HResults :
          WriteImmediate(d, a, hr) /\ UNCHANGED << logVars, nonPoolVars >>
    \/ \E d \in GlobalSizes, a \in Alignments :
          ReadSubresourceRegion_Record(d, a) /\ UNCHANGED << logVars, nonPoolVars >>
    \/ ReadSubresourceRegion_Submit /\ UNCHANGED << logVars, nonPoolVars >>
    \/ \E hr \in HResults : ReadSubresourceRegion_Map(hr) /\ UNCHANGED << logVars, nonPoolVars >>

SpecTransfer == InitChunks /\ [][NextTransfer]_vars

\* a client of the pool that records a round of WriteStaged calls, calls Reset and then
\* either repeats the round (the same sizes with the same results) or records a new one
NextReplay ==
    \/ \E d \in DataSizes, hr \in HResults :
          /\ mode = "record"
          /\ Len(log) < MaxLog
          /\ WriteStaged(d, hr)
          /\ log' = Append(log, << d, hr >>)
          /\ UNCHANGED << mode, replayed, chunksAtReset, nonPoolVars >>
    \/ /\ log # << >>
       /\ Reset
       /\ mode' = "replay"
       /\ replayed' = 0
       /\ chunksAtReset' = Len(chunks_)
       /\ UNCHANGED << log, nonPoolVars >>
    \/ /\ mode = "replay"
       /\ replayed < Len(log)
       /\ WriteStaged(log[replayed + 1][1], log[replayed + 1][2])
       /\ replayed' = replayed + 1
       /\ UNCHANGED << log, mode, chunksAtReset, nonPoolVars >>
    \/ /\ mode = "replay"
       /\ Reset
       /\ mode' = "record"
       /\ log' = << >>
       /\ replayed' = 0
       /\ chunksAtReset' = Len(chunks_)
       /\ UNCHANGED nonPoolVars

InitReplay ==
    /\ InitPool
    /\ currentState = D3D12_RESOURCE_STATE_COMMON
    /\ NoLog
    /\ InitNonPool

SpecReplay == InitReplay /\ [][NextReplay]_vars

----------------------------------------------------------------------------
(* Claims on the staging-buffer pool *)

\* the chunks from the current chunk index on that have capacity for dataSize (1-based)
FittingChunks(dataSize) ==
    { i \in (chunkIdx_ + 1)..Len(chunks_) : Capacity(chunks_[i], dataSize) }

\* C1: the number of chunks grows only in a WriteStaged call for which no chunk from the
\* current chunk index on has capacity for dataSize, and then by one chunk; when such a
\* chunk exists, WriteStaged selects the first of them and the number of chunks stays.
C1_ChunksGrowOnlyWhenNoneFits ==
    [][ /\ Len(chunks_') > Len(chunks_) =>
              /\ call'.op = "WriteStaged"
              /\ FittingChunks(call'.size) = { }
              /\ Len(chunks_') = Len(chunks_) + 1
        /\ (call'.op = "WriteStaged" /\ FittingChunks(call'.size) # { }) =>
              /\ Len(chunks_') = Len(chunks_)
              /\ chunkIdx_' + 1 \in FittingChunks(call'.size)
              /\ \A i \in FittingChunks(call'.size) : chunkIdx_' + 1 <= i
      ]_vars

\* a successful WriteStaged wrote to a chunk that is not the last: a chunk reused after Reset
C1_Witness ==
    /\ call.op = "WriteStaged"
    /\ call.hr = S_OK
    /\ chunkIdx_ + 1 < Len(chunks_)
    /\ chunks_[chunkIdx_ + 1].offset > 0

\* C2: Reset sets the offset of every chunk and the chunk index to 0 and leaves the number
\* of chunks, their sizes and the global buffers as they are; and while the WriteStaged
\* calls after Reset repeat the calls of the round before it (same sizes, same
\* results), no chunk is allocated.
C2_ResetRecyclesChunks ==
    /\ [][ call'.op = "Reset" =>
              /\ chunkIdx_' = 0
              /\ Len(chunks_') = Len(chunks_)
              /\ \A i \in 1..Len(chunks_) :
                    chunks_'[i].offset = 0 /\ chunks_'[i].size = chunks_[i].size
              /\ UNCHANGED << globalUploadBuffer_, globalReadbackBuffer_ >>
         ]_vars
    /\ [](mode = "replay" => Len(chunks_) = chunksAtReset)

\* a recorded round that filled two chunks has been repeated in full after Reset
C2_Witness ==
    /\ mode = "replay"
    /\ replayed = Len(log)
    /\ Len(log) >= 2
    /\ chunkIdx_ >= 1
    /\ call.op = "WriteStaged"
    /\ Len(chunks_) = chunksAtReset

\* C3: in ReadSubresourceRegion and MapFeedbackBuffer the copy into the readback buffer is
\* recorded first, it has been executed when the command context has been submitted, and
\* the CPU that then maps the readback buffer never finds an incomplete copy.
C3_CopyCompleteBeforeMap ==
    /\ pc \in { "read_recorded", "feedback_recorded" } =>
          PendingReadbackCopy /\ call.cpuSaw = "nothing"
    /\ pc \in { "read_submitted", "feedback_submitted" } =>
          ~PendingReadbackCopy /\ call.cpuSaw = "nothing"
    /\ call.cpuSaw # "incomplete"
    /\ (Idle /\ call.op \in { "ReadSubresourceRegion", "MapFeedbackBuffer" } /\ call.hr = S_OK) =>
          call.cpuSaw = "complete"

\* a ReadSubresourceRegion has returned S_OK with copies of earlier writes recorded before it
C3_Witness ==
    /\ Idle
    /\ call.op = "ReadSubresourceRegion"
    /\ call.hr = S_OK
    /\ call.cpuSaw = "complete"
    /\ call.outData > 0

\* C4: during and after WriteStaged, WriteImmediate and ReadSubresourceRegion the copy was
\* made in COPY_DEST (writes) or COPY_SOURCE (reads), and the buffer's tracked state is the
\* state it had at entry, whatever the result.
C4_TransferRestoresState ==
    /\ call.op \in { "WriteStaged", "WriteImmediate" } =>
          call.copyState = D3D12_RESOURCE_STATE_COPY_DEST /\ currentState = call.oldState
    /\ call.op = "ReadSubresourceRegion" =>
          call.copyState = D3D12_RESOURCE_STATE_COPY_SOURCE /\ currentState = call.oldState

\* a failed WriteImmediate on a buffer that was not in a copy state
C4_Witness ==
    /\ call.op = "WriteImmediate"
    /\ call.hr = E_FAIL
    /\ call.oldState = D3D12_RESOURCE_STATE_COMMON
    /\ currentState = D3D12_RESOURCE_STATE_COMMON

----------------------------------------------------------------------------
(* OpenGL swap chain and command buffer *)

NextGL ==
    \/ Present /\ UNCHANGED << cmdVars, poolVars, logVars, shaderVars, testbedVars, extraVars >>
    \/ GetCurrentSwapIndex /\ UNCHANGED << cmdVars, poolVars, logVars, shaderVars, testbedVars, extraVars >>
    \/ GetNumSwapBuffers /\ UNCHANGED << cmdVars, poolVars, logVars, shaderVars, testbedVars, extraVars >>
    \/ \E h \in Heights : ResizeBuffersPrimary(h) /\ UNCHANGED << cmdVars, poolVars, logVars, shaderVars, testbedVars, extraVars >>
    \/ \E op \in VariableCommands \cup FixedCommands, n \in Counts, t \in UniformTypes :
          RecordCommand(Command(op, n, t)) /\ UNCHANGED << swapVars, poolVars, logVars, shaderVars, testbedVars, extraVars >>
    \/ ExecuteCommands /\ UNCHANGED << swapVars, poolVars, logVars, shaderVars, testbedVars, extraVars >>

InitIdlePool ==
    /\ InitPool
    /\ chunkSize_ = 1
    /\ currentState = D3D12_RESOURCE_STATE_COMMON
    /\ NoLog

InitSpecGL ==
    /\ InitIdlePool
    /\ InitGL
    /\ InitShaderProgram
    /\ NoTestbed
    /\ NoExtra

SpecGL == InitSpecGL /\ [][NextGL]_vars

\* C5: every query of GetNumSwapBuffers reports 2 or 3 swap buffers.
C5_DoubleOrTripleBuffered ==
    swapQuery.fn = "GetNumSwapBuffers" => swapQuery.value \in { 2, 3 }

\* C6: every variable-length command holds the number of cells of its payload in its
\* header, and the replay of an encoded stream consumes all of its cells and finds the
\* commands that were encoded, in the same order.
C6_ReplayYieldsEncodedCommands ==
    /\ \A i \in 1..Len(glCommands) :
          Len(glCommands[i].payload) = PayloadCells(glCommands[i].op, glCommands[i].header)
    /\ glExecuted # NotExecuted =>
          /\ glExecuted.ok
          /\ glExecuted.commands = glCommands
          /\ glExecuted.consumed = Len(glBuffer)

\* a stream of two variable-length commands with payloads, the first a SetUniforms whose
\* size differs from its count, has been replayed
C6_Witness ==
    /\ Len(glCommands) = 2
    /\ glCommands[1].op = "SetUniforms"
    /\ Field("SetUniforms", glCommands[1].header, "size") > Field("SetUniforms", glCommands[1].header, "count")
    /\ glCommands[2].op = "ViewportArray"
    /\ glCommands[2].payload # << >>
    /\ glExecuted.ok
    /\ glExecuted.commands = glCommands

----------------------------------------------------------------------------
(* Shader program *)

NextShader ==
    \/ \E sh \in Shaders : AttachShader(sh) /\ UNCHANGED << poolVars, logVars, glVars, testbedVars, extraVars >>
    \/ DetachAll /\ UNCHANGED << poolVars, logVars, glVars, testbedVars, extraVars >>
    \/ \E success \in BOOLEAN : LinkShaders(success) /\ UNCHANGED << poolVars, logVars, glVars, testbedVars, extraVars >>

InitSpecShader ==
    /\ InitIdlePool
    /\ InitGL
    /\ framebufferHeight_ = 600
    /\ InitShaderProgram
    /\ NoTestbed
    /\ NoExtra

SpecShader == InitSpecShader /\ [][NextShader]_vars

\* C7: at most one shader of each type is attached; an AttachShader with a shader whose
\* type is occupied by a different attached shader throws std::invalid_argument and
\* leaves the attached shaders as they are.
C7_OneShaderPerType ==
    /\ [](\A a, b \in attached : GetType(a) = GetType(b) => a = b)
    /\ [][ (shaderCall'.op = "AttachShader" /\
            \E other \in attached :
                other # shaderCall'.shader /\ GetType(other) = GetType(shaderCall'.shader)) =>
              /\ shaderCall'.threw = "std::invalid_argument"
              /\ attached' = attached
         ]_vars

\* AttachShader has thrown with two shaders of other types attached
C7_Witness ==
    /\ shaderCall.op = "AttachShader"
    /\ shaderCall.threw = "std::invalid_argument"
    /\ shaderCall.shader = "vertexB"
    /\ attached = { "vertexA", "fragmentA" }

\* C8: DetachAll leaves no shader attached and the link status invalid, and an invalid
\* link status becomes valid only by a LinkShaders call that returns true.
C8_InvalidUntilLinked ==
    [][ /\ shaderCall'.op = "DetachAll" => attached' = { } /\ ~linked'
        /\ (~linked /\ linked') => shaderCall'.op = "LinkShaders" /\ shaderCall'.result
        /\ (shaderCall.afterDetach /\ shaderCall'.op = "AttachShader") =>
              ~linked' /\ shaderCall'.afterDetach
      ]_vars

\* after DetachAll two shaders were attached again: the link status is still invalid
C8_Witness ==
    /\ shaderCall.op = "AttachShader"
    /\ shaderCall.afterDetach
    /\ attached = { "vertexB", "fragmentA" }
    /\ ~linked

----------------------------------------------------------------------------
(* Testbed main *)

NextTestbed ==
    \/ GuardedMain_Begin /\ UNCHANGED << poolVars, logVars, glVars, shaderVars, extraVars >>
    \/ \E f \in Failures :
          GuardedMain_RunRendererIndependentTests(f) /\ UNCHANGED << poolVars, logVars, glVars, shaderVars, extraVars >>
    \/ \E f \in Failures :
          GuardedMain_RunTestbedForRenderer(f) /\ UNCHANGED << poolVars, logVars, glVars, shaderVars, extraVars >>
    \/ GuardedMain_TestbedThrows /\ UNCHANGED << poolVars, logVars, glVars, shaderVars, extraVars >>
    \/ GuardedMain_PrintSummary /\ UNCHANGED << poolVars, logVars, glVars, shaderVars, extraVars >>

InitSpecTestbed ==
    /\ InitIdlePool
    /\ InitGL
    /\ framebufferHeight_ = 600
    /\ InitShaderProgram
    /\ InitTestbed
    /\ NoExtra

SpecTestbed == InitSpecTestbed /\ [][NextTestbed]_vars

\* a help flag is among the arguments after argv[0]
HelpFlagGiven == \E i \in 2..Len(argv) : argv[i] \in { Str_h, Str_help }

\* the test runs that reported a failure
FailedRuns == { i \in 1..Len(testRuns) : testRuns[i].failures # 0 }

\* each enabled module has been run once, in list order, after the independent tests
AllModulesRun ==
    /\ Len(testRuns) = 1 + Len(enabledModules)
    /\ testRuns[1].name = << >>
    /\ \A i \in 1..Len(enabledModules) :
          /\ testRuns[i + 1].name = enabledModules[i].name
          /\ testRuns[i + 1].version = enabledModules[i].version

\* C9 as stated: without an exception the exit code is the number of test runs that
\* reported a failure, and it is 0 exactly when ALL MODULES PASSED was printed.
C9_ExitCodeIsFailedModules_Original ==
    (tbPc = "exited" /\ ~threw) =>
        /\ exitCode = Cardinality(FailedRuns)
        /\ exitCode = 0 <=> (\E i \in 1..Len(printed) : printed[i] = "ALL MODULES PASSED")

\* C9, amended: without an exception the exit code is the number of test runs that
\* reported a failure (the independent tests and each enabled module, run once each
\* unless a help flag was given), and when no help flag was given it is 0 exactly when
\* ALL MODULES PASSED was printed.
C9_ExitCodeIsFailedModules ==
    (tbPc = "exited" /\ ~threw) =>
        /\ exitCode = Cardinality(FailedRuns)
        /\ ~HelpFlagGiven =>
              /\ AllModulesRun
              /\ exitCode = 0 <=> (\E i \in 1..Len(printed) : printed[i] = "ALL MODULES PASSED")

\* the testbed has exited with code 2: the independent tests passed, two modules failed
C9_Witness ==
    /\ tbPc = "exited"
    /\ ~threw
    /\ exitCode = 2
    /\ Len(testRuns) = 3
    /\ testRuns[1].failures = 0
    /\ printed = << "MODULES FAILED" >>

\* C10: with a help flag among the arguments after argv[0] no test is run, and the
\* testbed exits with code 0 having printed the help document and nothing else.
C10_HelpOnly ==
    HelpFlagGiven =>
        /\ testRuns = << >>
        /\ ~threw
        /\ tbPc \in { "begin", "exited" }
        /\ tbPc = "exited" => exitCode = 0 /\ printed = << "help" >>

\* the testbed has exited on a help flag that follows a module name
C10_Witness ==
    /\ tbPc = "exited"
    /\ argv = << Str_Testbed, Str_gl, Str_help >>
    /\ availableModules # << >>
    /\ printed = << "help" >>

----------------------------------------------------------------------------
(* GetRendererModule on its own *)

NextModule ==
    \/ GetRendererModule_Call /\ UNCHANGED << poolVars, logVars, glVars, shaderVars, testbedVars, selectVars, canvasVars, reloadVars >>

InitSpecModule ==
    /\ InitIdlePool
    /\ InitGL
    /\ framebufferHeight_ = 600
    /\ InitShaderProgram
    /\ NoTestbed
    /\ InitModule
    /\ NoSelect
    /\ InitCanvas
    /\ NoReload

SpecModule == InitSpecModule /\ [][NextModule]_vars

\* the aliases of the help document, each with its module
DocumentedAliases ==
    { << Str_gl, Str_OpenGL >>, << Str_opengl, Str_OpenGL >>,
      << Str_vk, Str_Vulkan >>, << Str_vulkan, Str_Vulkan >>,
      << Str_mt, Str_Metal >>, << Str_mtl, Str_Metal >>, << Str_metal, Str_Metal >>,
      << Str_d3d11, Str_Direct3D11 >>, << Str_dx11, Str_Direct3D11 >>,
      << Str_direct3d11, Str_Direct3D11 >>,
      << Str_d3d12, Str_Direct3D12 >>, << Str_dx12, Str_Direct3D12 >>,
      << Str_direct3d12, Str_Direct3D12 >> }

\* the three-digit strings, each with its number
ThreeDigits ==
    { << << Digits[a + 1], Digits[b + 1], Digits[c + 1] >>, 100 * a + 10 * b + c >> :
         a \in 0..9, b \in 0..9, c \in 0..9 }

\* the result expected for a name under a table of aliases
ExpectedModule(aliases, name) ==
    IF \E e \in aliases : e[1] = name
    THEN [ name |-> (CHOOSE e \in aliases : e[1] = name)[2], version |-> 0 ]
    ELSE IF \E p \in { Str_gl, Str_opengl }, d \in ThreeDigits : name = p \o d[1]
    THEN [ name |-> Str_OpenGL,
           version |-> (CHOOSE d \in ThreeDigits :
                           \E p \in { Str_gl, Str_opengl } : name = p \o d[1])[2] ]
    ELSE [ name |-> name, version |-> 0 ]

\* C11 as stated: the documented aliases map to their modules with version 0, gl and
\* opengl followed by exactly three digits map to OpenGL with that number as version,
\* and every other name is returned unchanged with version 0.
C11_ModuleAliases_Original ==
    moduleResult # NoModule => moduleResult = ExpectedModule(DocumentedAliases, moduleArg)

\* C11, amended: the documented aliases and null (to Null) map to their modules with
\* version 0, gl and opengl followed by exactly three digits map to OpenGL with that
\* number as version, and every other name is returned unchanged with version 0.
C11_ModuleAliases ==
    moduleResult # NoModule =>
        moduleResult = ExpectedModule(DocumentedAliases \cup { << Str_null, Str_Null >> }, moduleArg)

\* opengl330 has been mapped to OpenGL with version 330
C11_Witness ==
    /\ moduleArg = Str_opengl \o << "3", "3", "0" >>
    /\ moduleResult = [ name |-> Str_OpenGL, version |-> 330 ]

----------------------------------------------------------------------------
(* GetSelectedRendererModule *)

NextSelect ==
    \/ GetSelectedRendererModule_Begin
          /\ UNCHANGED << poolVars, logVars, glVars, shaderVars, testbedVars, moduleVars, canvasVars, reloadVars >>
    \/ \E input \in 0..(Len(selModules) + 1) :
          GetSelectedRendererModule_Prompt(input)
          /\ UNCHANGED << poolVars, logVars, glVars, shaderVars, testbedVars, moduleVars, canvasVars, reloadVars >>

InitSpecSelect ==
    /\ InitIdlePool
    /\ InitGL
    /\ framebufferHeight_ = 600
    /\ InitShaderProgram
    /\ NoTestbed
    /\ NoModuleCall
    /\ InitSelect
    /\ InitCanvas
    /\ NoReload

SpecSelect == InitSpecSelect /\ [][NextSelect]_vars

\* C12: with an argument the function returns argv[1]; with no argument it throws exactly
\* when no module is available and returns the only module, without a prompt, when there
\* is one; a returned non-empty name is argv[1] or an element of the module list.
C12_SelectedModule ==
    /\ selPc = "returned" /\ Len(selArgv) > 1 => rendererModule = selArgv[2] /\ selPrompts = 0
    /\ selPc # "begin" /\ Len(selArgv) = 1 /\ selModules = << >> => selPc = "threw"
    /\ selPc = "threw" => Len(selArgv) = 1 /\ selModules = << >>
    /\ selPc = "returned" /\ Len(selArgv) = 1 /\ Len(selModules) = 1 =>
          rendererModule = selModules[1] /\ selPrompts = 0
    /\ selPc = "returned" /\ rendererModule # << >> =>
          \/ Len(selArgv) > 1 /\ rendererModule = selArgv[2]
          \/ \E i \in 1..Len(selModules) : selModules[i] = rendererModule

\* the third of three modules has been selected at the second prompt
C12_Witness ==
    /\ selPc = "returned"
    /\ Len(selArgv) = 1
    /\ Len(selModules) = 3
    /\ selPrompts = 2
    /\ rendererModule = selModules[3]

----------------------------------------------------------------------------
(* Canvas *)

NextCanvas ==
    \/ \E l \in EventListeners :
          AddEventListener(l)
          /\ UNCHANGED << poolVars, logVars, glVars, shaderVars, testbedVars, moduleVars, selectVars, reloadVars >>
    \/ \E l \in EventListeners :
          RemoveEventListener(l)
          /\ UNCHANGED << poolVars, logVars, glVars, shaderVars, testbedVars, moduleVars, selectVars, reloadVars >>
    \/ ProcessEvents_Begin
          /\ UNCHANGED << poolVars, logVars, glVars, shaderVars, testbedVars, moduleVars, selectVars, reloadVars >>
    \/ ProcessEvents_Notify
          /\ UNCHANGED << poolVars, logVars, glVars, shaderVars, testbedVars, moduleVars, selectVars, reloadVars >>
    \/ ProcessEvents_OnProcessEvents
          /\ UNCHANGED << poolVars, logVars, glVars, shaderVars, testbedVars, moduleVars, selectVars, reloadVars >>

InitSpecCanvas ==
    /\ InitIdlePool
    /\ InitGL
    /\ framebufferHeight_ = 600
    /\ InitShaderProgram
    /\ NoTestbed
    /\ NoModuleCall
    /\ NoSelect
    /\ InitCanvas
    /\ NoReload

SpecCanvas == InitSpecCanvas /\ [][NextCanvas]_vars

\* C13: no listener occurs twice in the list; adding a registered listener leaves the
\* list unchanged, and a removed listener is not in the list.
C13_ListenersRegisteredOnce ==
    /\ \A i, j \in 1..Len(eventListeners_) : eventListeners_[i] = eventListeners_[j] => i = j
    /\ canvasCall.op = "AddEventListener" =>
          /\ Contains(eventListeners_, canvasCall.listener)
          /\ Contains(canvasCall.before, canvasCall.listener) => eventListeners_ = canvasCall.before
    /\ canvasCall.op = "RemoveEventListener" => ~Contains(eventListeners_, canvasCall.listener)

\* a listener registered among three has been added a second time
C13_Witness ==
    /\ canvasCall.op = "AddEventListener"
    /\ Len(canvasCall.before) = 3
    /\ canvasCall.listener = canvasCall.before[2]

\* C14: ProcessEvents calls OnProcessEvents of the listeners registered at the call, once
\* each and in list order, and the canvas's own OnProcessEvents after all of them.
C14_ListenersNotifiedInOrder ==
    /\ canvasPc = "listeners" => canvasEvents = SubSeq(listenersAtCall, 1, notifyIdx - 1)
    /\ canvasPc = "idle" /\ canvasEvents # << >> => canvasEvents = listenersAtCall \o << "canvas" >>

\* ProcessEvents has returned after notifying three listeners
C14_Witness ==
    /\ canvasPc = "idle"
    /\ Len(canvasEvents) = 4
    /\ listenersAtCall = << "listenerB", "listenerC", "listenerA" >>

----------------------------------------------------------------------------
(* Tutorial::ReloadShaderProgram *)

otherThanReload == << poolVars, logVars, glVars, testbedVars, moduleVars, selectVars, canvasVars >>

NextReload ==
    \/ ReloadShaderProgram_Begin /\ UNCHANGED otherThanReload
    \/ \E compiled \in BOOLEAN : ReloadShaderProgram_Recompile(compiled) /\ UNCHANGED otherThanReload
    \/ \E success \in BOOLEAN : ReloadShaderProgram_Link(success) /\ UNCHANGED otherThanReload
    \/ ReloadShaderProgram_AttachPrevious /\ UNCHANGED otherThanReload
    \/ \E success \in BOOLEAN : ReloadShaderProgram_LinkPrevious(success) /\ UNCHANGED otherThanReload
    \/ ReloadShaderProgram_Release /\ UNCHANGED otherThanReload

InitSpecReload ==
    /\ InitIdlePool
    /\ InitGL
    /\ framebufferHeight_ = 600
    /\ NoTestbed
    /\ NoModuleCall
    /\ NoSelect
    /\ InitCanvas
    /\ InitReload

SpecReload == InitSpecReload /\ [][NextReload]_vars

\* C15: when an exception was raised after DetachAll, ReloadShaderProgram ends by returning
\* false with exactly the shaders of recall.shaders attached and linked, recall.shaders
\* unchanged and none of the previous shaders released.
C15_ReloadRestoresShaders ==
    (reloadPc = "done" /\ reloadFailed) =>
        /\ reloadResult = "false"
        /\ attached = Range(recallShaders)
        /\ linked
        /\ recallShaders = recallAtCall
        /\ releasedShaders \cap Range(recallAtCall) = { }

----------------------------------------------------------------------------
(* D3D12StagingBufferPool: the chunk WriteStaged writes to *)

\* C16: after a WriteStaged call the chunk index is less than the number of chunks; the
\* chunk it selected had room for dataSize, a chunk allocated for the call has the size
\* max(chunkSize_, dataSize), and the write ends inside the chunk.
C16_WriteStagedInsideChunk ==
    [][ call'.op = "WriteStaged" =>
          /\ chunkIdx_' < Len(chunks_')
          /\ LET after == chunks_'[chunkIdx_' + 1]
                 allocated == chunkIdx_' >= Len(chunks_)
                 offsetBefore == IF allocated THEN 0 ELSE chunks_[chunkIdx_' + 1].offset
             IN
             /\ allocated => after.size = (IF chunkSize_ >= call'.size THEN chunkSize_ ELSE call'.size)
             /\ ~allocated => after.size = chunks_[chunkIdx_' + 1].size
             /\ after.size - offsetBefore >= call'.size
             /\ call'.hr = S_OK => after.offset = offsetBefore + call'.size
             /\ after.offset <= after.size
      ]_vars

\* a WriteStaged of more than the configured chunk size has filled the chunk allocated for it
C16_Witness ==
    /\ call.op = "WriteStaged"
    /\ call.hr = S_OK
    /\ call.size > chunkSize_
    /\ chunkIdx_ = Len(chunks_) - 1
    /\ chunks_[chunkIdx_ + 1].size = call.size
    /\ chunks_[chunkIdx_ + 1].offset = call.size

----------------------------------------------------------------------------
(* D3D12StagingBufferPool: the global upload and readback buffers *)

UploadOps == { "WriteImmediate", "MapUploadBuffer" }
ReadbackOps == { "ReadSubresourceRegion", "MapFeedbackBuffer" }

\* the request of the call fits the buffer under every alignment
RequestFits(stagingBuffer, size) ==
    \A a \in Alignments : GetAlignedSize(size, a) <= stagingBuffer.size

\* C17: the sizes of the global upload and readback buffers never decrease; a buffer is
\* replaced only by a call whose request, rounded up to the alignment, exceeds its size,
\* and then by a larger one.
C17_GlobalBuffersOnlyGrow ==
    [][ /\ globalUploadBuffer_'.size >= globalUploadBuffer_.size
        /\ globalReadbackBuffer_'.size >= globalReadbackBuffer_.size
        /\ globalUploadBuffer_' # globalUploadBuffer_ =>
              /\ call'.op \in UploadOps
              /\ ~RequestFits(globalUploadBuffer_, call'.size)
              /\ globalUploadBuffer_'.size > globalUploadBuffer_.size
              /\ globalUploadBuffer_'.size >= call'.size
        /\ globalReadbackBuffer_' # globalReadbackBuffer_ =>
              /\ call'.op \in ReadbackOps
              /\ ~RequestFits(globalReadbackBuffer_, call'.size)
              /\ globalReadbackBuffer_'.size > globalReadbackBuffer_.size
              /\ globalReadbackBuffer_'.size >= call'.size
      ]_vars

\* a small WriteImmediate has reused an upload buffer that had grown to two pages
C17_Witness ==
    /\ call.op = "WriteImmediate"
    /\ call.size = 1
    /\ globalUploadBuffer_.size = 2 * minAlignment

\* C18: while a global buffer is mapped no step replaces it. ResizeBuffer returns a
\* different buffer exactly when it calls Create, so a changed buffer is a new native buffer.
C18_NoRecreateWhileMapped ==
    [][ /\ uploadMapped => globalUploadBuffer_' = globalUploadBuffer_
        /\ readbackMapped => globalReadbackBuffer_' = globalReadbackBuffer_
      ]_vars

\* C19: after MapFeedbackBuffer the tracked state of the source buffer is COPY_SOURCE, and
\* after UnmapUploadBuffer that of the destination buffer is COPY_DEST, whatever it was.
C19_MapAndUnmapLeaveCopyState ==
    /\ call.op = "MapFeedbackBuffer" => currentState = D3D12_RESOURCE_STATE_COPY_SOURCE
    /\ call.op = "UnmapUploadBuffer" => currentState = D3D12_RESOURCE_STATE_COPY_DEST

\* UnmapUploadBuffer has left a buffer in COPY_DEST that was in COPY_SOURCE before
C19_Witness ==
    /\ call.op = "UnmapUploadBuffer"
    /\ call.oldState = D3D12_RESOURCE_STATE_COPY_SOURCE
    /\ currentState = D3D12_RESOURCE_STATE_COPY_DEST

\* C20: when ReadSubresourceRegion has returned, the command context is submitted and the
\* source buffer is in its old state; after a failed Map the result is the failure, the
\* output is not written and the buffer is not unmapped; after a successful Map the result
\* is S_OK, dataSize bytes are in the output and the buffer is unmapped.
C20_ReadSubresourceRegionResult ==
    (call.op = "ReadSubresourceRegion" /\ pc = "idle") =>
        /\ ~PendingReadbackCopy
        /\ currentState = call.oldState
        /\ call.hr # S_OK => call.outData = 0 /\ ~call.unmapped
        /\ call.hr = S_OK => call.outData = call.size /\ call.unmapped

\* a ReadSubresourceRegion of three bytes has returned the failure of Map
C20_Witness ==
    /\ call.op = "ReadSubresourceRegion"
    /\ pc = "idle"
    /\ call.hr = E_FAIL
    /\ call.size > 1
    /\ call.outData = 0
    /\ currentState = D3D12_RESOURCE_STATE_COPY_DEST

----------------------------------------------------------------------------
(* Testbed main: the order of the test runs *)

\* an argument that names a module: it does not start with '-'
NamesModule(arg) == arg = << >> \/ arg[1] # "-"

\* the modules to run: those named after argv[0], in command-line order, or else all
\* available modules
ModulesToRun ==
    LET named == SelectSeq(Tail(argv), NamesModule) IN
    IF named # << >>
    THEN [ i \in 1..Len(named) |-> GetRendererModule(named[i]) ]
    ELSE [ i \in 1..Len(availableModules) |-> [ name |-> availableModules[i], version |-> 0 ] ]

\* the test runs so far are the independent tests followed by the first modules to run
RunsInOrder ==
    /\ Len(testRuns) <= 1 + Len(ModulesToRun)
    /\ testRuns # << >> => testRuns[1].name = << >>
    /\ \A i \in 2..Len(testRuns) :
          /\ testRuns[i].name = ModulesToRun[i - 1].name
          /\ testRuns[i].version = ModulesToRun[i - 1].version

====
